---- MODULE Spec2Model ----
(***************************************************************************)
(* A model of func_py's two core components:                               *)
(*   - the partial-application accumulator of curry.py (curry / Partial),  *)
(*   - the tail-call trampoline of tco.py (tco / inner).                   *)
(* Python values are modelled as TLA+ values: a positional argument tuple  *)
(* is a sequence, a keyword dictionary is a function whose domain is the   *)
(* set of its keys, an optional value is a sequence of length 0 or 1.      *)
(***************************************************************************)
EXTENDS Integers, Sequences, FiniteSets, TLC

\* ------------------------------------------------------------------------
\* Bounds
\* ------------------------------------------------------------------------
MaxThreshold == 3   \* num_args handed to curry ranges over 0..MaxThreshold
MaxCallArgs == 3    \* arguments (positional + named) of one call
MaxN == 9           \* factorial and fibonacci are run for n in 0..MaxN
MaxCount == 12      \* the invocation counters stop counting here
MaxInt == 4         \* the safe_floor variants are run on -MaxInt..MaxInt

\* ------------------------------------------------------------------------
\* Python values and dictionaries
\* ------------------------------------------------------------------------
EmptyDict == [n \in {} |-> 0]

Targets == {"add", "make_email"}

\* the arguments callers pass to the two doctest targets
Vals(fn) == IF fn = "add" THEN {1, 2} ELSE {"h", "g"}

\* keyword names callers use: parameters of the target and, for add, the
\* name `fn`, which is also a parameter of Partial.__init__
Names(fn) == IF fn = "add" THEN {"a", "c", "fn"}
             ELSE {"username", "domain", "separator"}

Dicts(fn) == UNION {[S -> Vals(fn)] : S \in SUBSET Names(fn)}

Tuples(fn) == UNION {[1..n -> Vals(fn)] : n \in 0..MaxCallArgs}

\* dict(**kwargs, **more_kwargs): a key present in both is a TypeError
DictClash(kwargs, more_kwargs) == (DOMAIN kwargs \cap DOMAIN more_kwargs) # {}

DictUnion(kwargs, more_kwargs) ==
    [n \in (DOMAIN kwargs \cup DOMAIN more_kwargs) |->
        IF n \in DOMAIN more_kwargs THEN more_kwargs[n] ELSE kwargs[n]]

\* ------------------------------------------------------------------------
\* The decorated targets of the doctests, and Python's argument binding
\* ------------------------------------------------------------------------
Params(fn) == IF fn = "add" THEN <<"a", "b", "c">>
              ELSE <<"username", "domain", "separator">>

Defaults(fn) == IF fn = "add" THEN EmptyDict ELSE [n \in {"separator"} |-> "@"]

ParamSet(fn) == {Params(fn)[k] : k \in 1..Len(Params(fn))}

PositionalNames(fn, args) ==
    {Params(fn)[k] : k \in 1..(IF Len(args) < Len(Params(fn)) THEN Len(args) ELSE Len(Params(fn)))}

\* fn(*args, **kwargs) is a TypeError: too many positional arguments, an
\* unexpected keyword, a parameter given twice, or a required one missing
BindFails(fn, args, kwargs) ==
    \/ Len(args) > Len(Params(fn))
    \/ \E n \in DOMAIN kwargs : n \notin ParamSet(fn)
    \/ (PositionalNames(fn, args) \cap DOMAIN kwargs) # {}
    \/ \E n \in ParamSet(fn) :
          /\ n \notin PositionalNames(fn, args)
          /\ n \notin DOMAIN kwargs
          /\ n \notin DOMAIN Defaults(fn)

Bound(fn, args, kwargs) ==
    [n \in ParamSet(fn) |->
        IF \E k \in 1..Len(args) : k <= Len(Params(fn)) /\ Params(fn)[k] = n
        THEN args[CHOOSE k \in 1..Len(args) : k <= Len(Params(fn)) /\ Params(fn)[k] = n]
        ELSE IF n \in DOMAIN kwargs THEN kwargs[n] ELSE Defaults(fn)[n]]

Body(fn, b) ==
    IF fn = "add" THEN b["a"] + b["b"] + b["c"]
    ELSE b["username"] \o b["separator"] \o b["domain"]

\* the outcome of fn(*args, **kwargs): ret holds the returned value, or
\* exc names the exception
CallTarget(fn, args, kwargs) ==
    IF BindFails(fn, args, kwargs)
    THEN [exc |-> "TypeError", ret |-> <<>>]
    ELSE [exc |-> "", ret |-> <<Body(fn, Bound(fn, args, kwargs))>>]

\* ------------------------------------------------------------------------
\* Partial
\* ------------------------------------------------------------------------
\* Partial.__init__(num_args, fn, *args, **kwargs): a keyword called
\* num_args, fn or self collides with the parameters of __init__
InitFails(kwargs) == (DOMAIN kwargs \cap {"self", "num_args", "fn"}) # {}

NewPartial(num_args, fn, args, kwargs) ==
    [num_args |-> num_args, fn |-> fn, args |-> args, kwargs |-> kwargs]

NoPartial == <<>>

Outcome(kind, exc, ret, obj, called, fn_args, fn_kwargs) ==
    [kind |-> kind, exc |-> exc, ret |-> ret, obj |-> obj,
     called |-> called, fn_args |-> fn_args, fn_kwargs |-> fn_kwargs]

AllArgsPrepended(self, more_args) == more_args \o self.args

\* all_args = self.args + more_args
AllArgs(self, more_args) == self.args \o more_args

ReachedStrictly(num_args, num_args_needed) == num_args > num_args_needed

\* num_args >= self.num_args
Reached(num_args, num_args_needed) == num_args >= num_args_needed

ReturnFnGuarded(fn, all_args, all_kwargs) ==
    IF BindFails(fn, all_args, all_kwargs)
    THEN Outcome("result", "", <<>>, NoPartial, 0, <<>>, EmptyDict)
    ELSE Outcome("result", "", CallTarget(fn, all_args, all_kwargs).ret,
                 NoPartial, 1, all_args, all_kwargs)

\* return self.fn(*all_args, **all_kwargs): fn is invoked with whatever
\* was accumulated, and its value or its exception is the call's own
ReturnFn(fn, all_args, all_kwargs) ==
    LET r == CallTarget(fn, all_args, all_kwargs) IN
    Outcome(IF r.exc = "" THEN "result" ELSE "raise", r.exc, r.ret,
            NoPartial, 1, all_args, all_kwargs)

\* Partial.__call__: kind is "partial" (a new Partial, in obj), "result"
\* (fn returned ret) or "raise" (exception exc); called counts the
\* invocations of fn and fn_args, fn_kwargs are what it was invoked with
PartialCall(self, more_args, more_kwargs) ==
    LET all_args == AllArgs(self, more_args) IN
    IF DictClash(self.kwargs, more_kwargs)
    THEN Outcome("raise", "TypeError", <<>>, NoPartial, 0, <<>>, EmptyDict)
    ELSE
      LET all_kwargs == DictUnion(self.kwargs, more_kwargs)
          num_args == Len(all_args) + Cardinality(DOMAIN all_kwargs)
      IN
      IF Reached(num_args, self.num_args)
      THEN ReturnFn(self.fn, all_args, all_kwargs)
      ELSE IF InitFails(all_kwargs)
           THEN Outcome("raise", "TypeError", <<>>, NoPartial, 0, <<>>, EmptyDict)
           ELSE Outcome("partial", "", <<>>,
                        NewPartial(self.num_args, self.fn, all_args, all_kwargs),
                        0, <<>>, EmptyDict)

\* ------------------------------------------------------------------------
\* curry_functional
\* ------------------------------------------------------------------------
\* init(*args, **kwargs) returns the closure call, which holds args and
\* kwargs together with num_args and fn of the enclosing scopes
NewClosure(num_args, fn, args, kwargs) ==
    [num_args |-> num_args, fn |-> fn, args |-> args, kwargs |-> kwargs]

\* call(*more_args, **more_kwargs), with the fields of PartialCall's outcome
FunctionalCall(clo, more_args, more_kwargs) ==
    LET all_args == clo.args \o more_args IN
    IF DictClash(clo.kwargs, more_kwargs)
    THEN Outcome("raise", "TypeError", <<>>, NoPartial, 0, <<>>, EmptyDict)
    ELSE
      LET all_kwargs == DictUnion(clo.kwargs, more_kwargs) IN
      IF Len(all_args) + Cardinality(DOMAIN all_kwargs) >= clo.num_args
      THEN LET r == CallTarget(clo.fn, all_args, all_kwargs) IN
           Outcome(IF r.exc = "" THEN "result" ELSE "raise", r.exc, r.ret,
                   NoPartial, 1, all_args, all_kwargs)
      ELSE Outcome("partial", "", <<>>,
                   NewClosure(clo.num_args, clo.fn, all_args, all_kwargs),
                   0, <<>>, EmptyDict)

SelfAfterCallInPlace(self, more_args, more_kwargs) ==
    [self EXCEPT !.args = self.args \o more_args]

\* the receiver after self(*more_args, **more_kwargs): __call__ binds only
\* the locals all_args, all_kwargs and num_args and assigns no attribute
SelfAfterCall(self, more_args, more_kwargs) == self

\* ------------------------------------------------------------------------
\* State
\* ------------------------------------------------------------------------
VARIABLES
    threshold,  \* num_args given to curry
    target,     \* the decorated function
    held,       \* the Partial the caller holds in its variable, as an
                \* entry [obj, sup]: the object and what callers supplied
                \* on the chain of calls that produced it
    last,       \* the call being evaluated and its outcome
    fheld,      \* the closure curry_functional(num_args)(fn) gives a caller
                \* who makes the same calls and keeps the same results
    flast       \* the outcome of the call being evaluated on fheld

cvars == <<threshold, target, held, last, fheld, flast>>

\* tco.py: the state of one run of inner, the wrapped callable
VARIABLES
    step,       \* the decorated step function fn
    table,      \* its signal for each argument set, when it is not one of
                \* the two examples
    call0,      \* the arguments the caller gave the wrapped callable
    pc,         \* the line inner is at
    stack,      \* the live activations, outermost first
    passed,        \* the arguments of the latest invocation of fn
    result,     \* inner's local `result`
    retval,     \* what inner returned to its caller
    ncalls,     \* invocations of fn so far (counted up to MaxCount)
    ntail,      \* TailCall signals fn has returned (counted up to MaxCount)
    tick        \* parity of the number of invocations of fn

tvars == <<step, table, call0, pc, stack, passed, result, retval, ncalls, ntail, tick>>

\* cps.py: the operands and what each of the three variants gave
VARIABLES
    arg_a,      \* the dividend a
    arg_b,      \* the divisor b
    floor1,     \* safe_floor(a, b)
    floor2,     \* safe_floor2(a, b)(identity, print)
    floor3      \* safe_floor3(a, b), decorated with cps_result

fvars == <<arg_a, arg_b, floor1, floor2, floor3>>

vars == <<cvars, tvars, fvars>>

\* what has been supplied to a chain: every positional argument in call
\* order, the named arguments with the latest value of each name, the
\* number of arguments supplied, and the size of each call that supplied any
NoSupply == [args |-> <<>>, kwargs |-> EmptyDict, count |-> 0, groups |-> <<>>]

Supply(sup, more_args, more_kwargs) ==
    [args |-> sup.args \o more_args,
     kwargs |-> [n \in (DOMAIN sup.kwargs \cup DOMAIN more_kwargs) |->
                   IF n \in DOMAIN more_kwargs THEN more_kwargs[n] ELSE sup.kwargs[n]],
     count |-> sup.count + Len(more_args) + Cardinality(DOMAIN more_kwargs),
     groups |-> IF Len(more_args) + Cardinality(DOMAIN more_kwargs) = 0
                THEN sup.groups
                ELSE Append(sup.groups, Len(more_args) + Cardinality(DOMAIN more_kwargs))]

NoCall == [self |-> [obj |-> NoPartial, sup |-> NoSupply],
           more_args |-> <<>>, more_kwargs |-> EmptyDict,
           out |-> Outcome("none", "", <<>>, NoPartial, 0, <<>>, EmptyDict)]

\* curry(num_args)(fn): decorator returns Partial(num_args, fn)
Decorate(num_args, fn) == NewPartial(num_args, fn, <<>>, EmptyDict)

\* curry_functional(num_args)(fn): decorator returns init()
DecorateFunctional(num_args, fn) == NewClosure(num_args, fn, <<>>, EmptyDict)

InitCurry ==
    /\ threshold \in 0..MaxThreshold
    /\ target \in Targets
    /\ held = [obj |-> Decorate(threshold, target), sup |-> NoSupply]
    /\ last = NoCall
    /\ fheld = DecorateFunctional(threshold, target)
    /\ flast = NoCall.out

\* the caller evaluates held.obj(*more_args, **more_kwargs)
Call(more_args, more_kwargs) ==
    /\ last.out.kind = "none"
    /\ last' = [self |-> held, more_args |-> more_args, more_kwargs |-> more_kwargs,
                out |-> PartialCall(held.obj, more_args, more_kwargs)]
    /\ held' = [held EXCEPT !.obj = SelfAfterCall(held.obj, more_args, more_kwargs)]
    /\ flast' = FunctionalCall(fheld, more_args, more_kwargs)
    /\ UNCHANGED <<threshold, target, fheld>>
    /\ UNCHANGED <<tvars, fvars>>

CallAny ==
    \E more_args \in Tuples(target) :
      \E more_kwargs \in Dicts(target) :
        /\ Len(more_args) + Cardinality(DOMAIN more_kwargs) <= MaxCallArgs
        /\ Call(more_args, more_kwargs)

\* the caller's next statement drops the value of the call expression and
\* keeps the Partial it called, as after add5(4, 3)
Discard ==
    /\ last.out.kind # "none"
    /\ last' = NoCall
    /\ flast' = NoCall.out
    /\ UNCHANGED <<threshold, target, held, fheld>>
    /\ UNCHANGED <<tvars, fvars>>

\* the call was the right-hand side of an assignment, as in add5 = add(5):
\* the caller goes on with the returned Partial
Hold ==
    /\ last.out.kind = "partial"
    /\ held' = [obj |-> last.out.obj,
                sup |-> Supply(last.self.sup, last.more_args, last.more_kwargs)]
    /\ fheld' = IF flast.kind = "partial" THEN flast.obj ELSE fheld
    /\ last' = NoCall
    /\ flast' = NoCall.out
    /\ UNCHANGED <<threshold, target>>
    /\ UNCHANGED <<tvars, fvars>>

\* ------------------------------------------------------------------------
\* tco.py: the signals and the step functions
\* ------------------------------------------------------------------------
\* TailCall(args, kwargs) and Return(return_val); tag is the object's class
TailCall(args, kwargs) ==
    [tag |-> "TailCall", args |-> args, kwargs |-> kwargs, return_val |-> <<>>]

Return(return_val) ==
    [tag |-> "Return", args |-> <<>>, kwargs |-> EmptyDict, return_val |-> <<return_val>>]

NoResult == [tag |-> "unset", args |-> <<>>, kwargs |-> EmptyDict, return_val |-> <<>>]

ArgSet(args, kwargs) == [args |-> args, kwargs |-> kwargs]

FactorialLosingAcc(a) ==
    LET n == a.args[1]
    IN IF n = 0 THEN Return(1)
       ELSE TailCall(<<n - 1, n>>, EmptyDict)

\* factorial(n, acc=1)
Factorial(a) ==
    LET n == a.args[1]
        acc == IF Len(a.args) >= 2 THEN a.args[2] ELSE 1
    IN IF n = 0 THEN Return(acc)
       ELSE TailCall(<<n - 1, n * acc>>, EmptyDict)

\* fibonacci(n, cur=1, nxt=1)
Fibonacci(a) ==
    LET n == a.args[1]
        cur == IF Len(a.args) >= 2 THEN a.args[2] ELSE 1
        nxt == IF Len(a.args) >= 3 THEN a.args[3] ELSE 1
    IN IF n = 0 THEN Return(cur)
       ELSE TailCall(<<n - 1, nxt, cur + nxt>>, EmptyDict)

\* Any other step function fn(*args, **kwargs) -> Thunk is a map from the
\* argument sets it is called with to signals.  These take no argument, one
\* positional argument or one named argument, and return None, the empty
\* string or "v".
StepArgs == {ArgSet(<<>>, EmptyDict), ArgSet(<<1>>, EmptyDict),
             ArgSet(<<>>, [n \in {"n"} |-> 1])}

ReturnVals == {"None", "", "v"}

Signals == {TailCall(a.args, a.kwargs) : a \in StepArgs}
              \cup {Return(v) : v \in ReturnVals}

StepTables == [StepArgs -> Signals]

NoTable == <<>>

\* fn(*a.args, **a.kwargs)
StepFn(f, t, a) ==
    IF f = "factorial" THEN Factorial(a)
    ELSE IF f = "fibonacci" THEN Fibonacci(a)
    ELSE t[a]

\* ------------------------------------------------------------------------
\* tco.py: inner, the wrapped callable
\* ------------------------------------------------------------------------
Count(n) == IF n < MaxCount THEN n + 1 ELSE MaxCount

\* a call pushes the callee's activation; a return pops it
Push(stk, frame) == Append(stk, frame)

Pop(stk) == SubSeq(stk, 1, Len(stk) - 1)

\* line 42 calls fn from inner's own activation
LoopCallRecursing(stk) == Push(Push(stk, "inner"), "fn")

LoopCall(stk) == Push(stk, "fn")

\* line 42 passes result.args and result.kwargs
LoopArgsStale(res, first) == first

LoopArgs(res, first) == ArgSet(res.args, res.kwargs)

\* while isinstance(result, TailCall)
IsTailCallSentinel(res) ==
    res.tag = "TailCall" /\ (res.args # <<>> \/ DOMAIN res.kwargs # {})

IsTailCall(res) == res.tag = "TailCall"

IdleTco ==
    /\ step = "none"
    /\ table = NoTable
    /\ call0 = ArgSet(<<>>, EmptyDict)
    /\ pc = "idle"
    /\ stack = <<>>
    /\ passed = ArgSet(<<>>, EmptyDict)
    /\ result = NoResult
    /\ retval = <<>>
    /\ ncalls = 0
    /\ ntail = 0
    /\ tick = 0

\* the caller has just called the wrapped callable: inner(*args, **kwargs)
InitTco ==
    /\ \/ /\ step \in {"factorial", "fibonacci"}
          /\ table = NoTable
          /\ \E n \in 0..MaxN : call0 = ArgSet(<<n>>, EmptyDict)
       \/ /\ step = "table"
          /\ table \in StepTables
          /\ call0 \in StepArgs
    /\ pc = "l40"
    /\ stack = <<"inner">>
    /\ passed = ArgSet(<<>>, EmptyDict)
    /\ result = NoResult
    /\ retval = <<>>
    /\ ncalls = 0
    /\ ntail = 0
    /\ tick = 0

\* line 40: result = fn(*args, **kwargs), up to the entry into fn
FirstCall ==
    /\ pc = "l40"
    /\ passed' = call0
    /\ stack' = Push(stack, "fn")
    /\ ncalls' = Count(ncalls)
    /\ tick' = 1 - tick
    /\ pc' = "fn"
    /\ UNCHANGED <<step, table, call0, result, retval, ntail>>
    /\ UNCHANGED <<cvars, fvars>>

\* fn returns its signal, which inner assigns to result
FnReturns ==
    /\ pc = "fn"
    /\ result' = StepFn(step, table, passed)
    /\ ntail' = IF result'.tag = "TailCall" THEN Count(ntail) ELSE ntail
    /\ stack' = Pop(stack)
    /\ pc' = "l41"
    /\ UNCHANGED <<step, table, call0, passed, retval, ncalls, tick>>
    /\ UNCHANGED <<cvars, fvars>>

\* line 41, the loop test, taken: line 42 up to the entry into fn
LoopIteration ==
    /\ pc = "l41"
    /\ IsTailCall(result)
    /\ passed' = LoopArgs(result, call0)
    /\ stack' = LoopCall(stack)
    /\ ncalls' = Count(ncalls)
    /\ tick' = 1 - tick
    /\ pc' = "fn"
    /\ UNCHANGED <<step, table, call0, result, retval, ntail>>
    /\ UNCHANGED <<cvars, fvars>>

\* line 41 not taken: line 44, return result.return_val
LoopExit ==
    /\ pc = "l41"
    /\ ~IsTailCall(result)
    /\ retval' = result.return_val
    /\ stack' = Pop(stack)
    /\ pc' = "done"
    /\ UNCHANGED <<step, table, call0, passed, result, ncalls, ntail, tick>>
    /\ UNCHANGED <<cvars, fvars>>

\* ------------------------------------------------------------------------
\* cps.py: three ways of dividing safely
\* ------------------------------------------------------------------------
\* what a call gave: the value it returned (None is <<>>), the exception it
\* raised, and what it printed
Gave(ret, exc, printed) == [ran |-> TRUE, ret |-> ret, exc |-> exc, printed |-> printed]

NotRun == [ran |-> FALSE, ret |-> <<>>, exc |-> "", printed |-> <<>>]

\* x // y: the quotient rounded towards minus infinity
FloorDiv(x, y) ==
    IF y = 0 THEN Gave(<<>>, "ZeroDivisionError", <<>>)
    ELSE Gave(<<CHOOSE q \in -(MaxInt + 1)..(MaxInt + 1) :
                   IF y > 0 THEN q * y <= x /\ x < (q + 1) * y
                   ELSE q * y >= x /\ x > (q + 1) * y>>, "", <<>>)

SafeFloor(x, y) ==
    IF y = 0 THEN Gave(<<>>, "", <<"Division by zero">>)
    ELSE FloorDiv(x, y)

\* the continuations __main__ passes: identity = lambda x: x, and print
ApplyCont(k, r) ==
    IF r.exc # "" THEN r
    ELSE IF k = "identity" THEN r
    ELSE Gave(<<>>, "", r.ret)

SafeFloor2(x, y, ok, err) ==
    IF y = 0 THEN ApplyCont(err, Gave(<<"Division by zero">>, "", <<>>))
    ELSE ApplyCont(ok, FloorDiv(x, y))

Ok(val) == [tag |-> "Ok", val |-> val, err |-> <<>>, exc |-> ""]

Err(err) == [tag |-> "Err", val |-> <<>>, err |-> err, exc |-> ""]

Raised(exc) == [tag |-> "", val |-> <<>>, err |-> <<>>, exc |-> exc]

\* safe_floor3 before decoration
SafeFloor3Body(x, y) ==
    IF y = 0 THEN Err(<<"Division by zero">>)
    ELSE LET q == FloorDiv(x, y) IN
         IF q.exc # "" THEN Raised(q.exc) ELSE Ok(q.ret)

CpsResultErrAsValue(res) ==
    IF res.exc # "" THEN Gave(<<>>, res.exc, <<>>)
    ELSE IF res.tag = "Ok" THEN Gave(res.val, "", <<>>)
    ELSE Gave(res.err, "", res.err)

\* cps_result.inner, given what fn(*args, **kwargs) produced
CpsResult(res) ==
    IF res.exc # "" THEN Gave(<<>>, res.exc, <<>>)
    ELSE IF res.tag = "Ok" THEN Gave(res.val, "", <<>>)
    ELSE Gave(<<>>, "", res.err)

SafeFloor3(x, y) == CpsResult(SafeFloor3Body(x, y))

IdleCps ==
    /\ arg_a = 0
    /\ arg_b = 0
    /\ floor1 = NotRun
    /\ floor2 = NotRun
    /\ floor3 = NotRun

InitCps ==
    /\ arg_a \in -MaxInt..MaxInt
    /\ arg_b \in -MaxInt..MaxInt
    /\ floor1 = NotRun
    /\ floor2 = NotRun
    /\ floor3 = NotRun

RunSafeFloor ==
    /\ ~floor1.ran
    /\ floor1' = SafeFloor(arg_a, arg_b)
    /\ UNCHANGED <<arg_a, arg_b, floor2, floor3>>
    /\ UNCHANGED <<cvars, tvars>>

RunSafeFloor2 ==
    /\ ~floor2.ran
    /\ floor2' = SafeFloor2(arg_a, arg_b, "identity", "print")
    /\ UNCHANGED <<arg_a, arg_b, floor1, floor3>>
    /\ UNCHANGED <<cvars, tvars>>

RunSafeFloor3 ==
    /\ ~floor3.ran
    /\ floor3' = SafeFloor3(arg_a, arg_b)
    /\ UNCHANGED <<arg_a, arg_b, floor1, floor2>>
    /\ UNCHANGED <<cvars, tvars>>

\* ------------------------------------------------------------------------
\* Specifications
\* ------------------------------------------------------------------------
Init == InitCurry /\ IdleTco /\ IdleCps

Next == CallAny \/ Discard \/ Hold

\* the accumulator under any caller
Spec == Init /\ [][Next]_vars

IdleCurry ==
    /\ threshold = 0
    /\ target = "none"
    /\ held = [obj |-> NoPartial, sup |-> NoSupply]
    /\ last = NoCall
    /\ fheld = NoPartial
    /\ flast = NoCall.out

InitT == InitTco /\ IdleCurry /\ IdleCps

NextT == FirstCall \/ FnReturns \/ LoopIteration \/ LoopExit

\* one run of a wrapped callable
SpecTco == InitT /\ [][NextT]_vars

\* the interpreter keeps executing inner while it has a next statement
FairSpecTco == SpecTco /\ WF_vars(NextT)

InitF == InitCps /\ IdleCurry /\ IdleTco

NextF == RunSafeFloor \/ RunSafeFloor2 \/ RunSafeFloor3

\* the three variants applied to one pair of operands
SpecCps == InitF /\ [][NextF]_vars

\* ------------------------------------------------------------------------
\* Properties of the accumulator
\* ------------------------------------------------------------------------
Total(obj) == Len(obj.args) + Cardinality(DOMAIN obj.kwargs)

Called == last.out.kind # "none"

\* what the chain has been given once the call in `last` is counted
SupplyNow == Supply(last.self.sup, last.more_args, last.more_kwargs)

\* C1: on a chain of calls, a call that leaves the number of supplied
\* arguments (positional + named) below the threshold returns a further
\* callable without invoking target, and a call that brings it to the
\* threshold or above invokes target exactly once with everything that
\* was supplied and returns target's outcome.
C1_ThresholdProtocol ==
    Called =>
      /\ SupplyNow.count < threshold =>
            /\ last.out.kind = "partial"
            /\ last.out.called = 0
      /\ SupplyNow.count >= threshold =>
            /\ last.out.called = 1
            /\ last.out.fn_args = SupplyNow.args
            /\ last.out.fn_kwargs = SupplyNow.kwargs
            /\ last.out.ret = CallTarget(target, SupplyNow.args, SupplyNow.kwargs).ret

\* C2: a call that names an argument the chain already holds succeeds, and
\* the merged mapping (kept in the new accumulator, or handed to target)
\* has the later value for that name.
C2_LastWriteWins ==
    (Called /\ DictClash(last.self.obj.kwargs, last.more_kwargs)) =>
      \/ /\ last.out.kind = "partial"
         /\ \A n \in DOMAIN last.more_kwargs :
               last.out.obj.kwargs[n] = last.more_kwargs[n]
      \/ /\ last.out.called = 1
         /\ \A n \in DOMAIN last.more_kwargs :
               last.out.fn_kwargs[n] = last.more_kwargs[n]

\* C3 as stated: every accumulator handed to the caller, the one the
\* decorator returned included, holds fewer arguments than the threshold.
C3_AllBelowThreshold ==
    /\ Total(held.obj) < threshold
    /\ last.out.kind = "partial" => Total(last.out.obj) < threshold

\* C3 amended: every accumulator returned by a call holds fewer arguments
\* than the threshold; so does the one the decorator returned when the
\* threshold is at least 1, while for threshold 0 it holds 0 arguments and
\* no call returns an accumulator.
C3_ReturnedBelowThreshold ==
    /\ last.out.kind = "partial" => Total(last.out.obj) < threshold
    /\ threshold >= 1 => Total(held.obj) < threshold
    /\ threshold = 0 => /\ Total(held.obj) = 0
                        /\ last.out.kind # "partial"

C3_Witness ==
    /\ threshold = 3
    /\ last.out.kind = "partial"
    /\ Total(last.out.obj) = 2
    /\ Total(held.obj) = 1

\* C4: with threshold 3 and the target add(a, b, c), the call that
\* completes three positional arguments, however they were split into calls
\* (3, 1+2, 2+1, 1+1+1), invokes add once with the arguments in the order
\* they were supplied and returns their sum.
C4_Groupings == {<<3>>, <<1, 2>>, <<2, 1>>, <<1, 1, 1>>}

C4_GroupingEquivalence ==
    (/\ Called
     /\ target = "add"
     /\ threshold = 3
     /\ SupplyNow.kwargs = EmptyDict
     /\ SupplyNow.groups \in C4_Groupings) =>
        /\ last.out.kind = "result"
        /\ last.out.called = 1
        /\ last.out.fn_args = SupplyNow.args
        /\ last.out.fn_kwargs = EmptyDict
        /\ last.out.ret = <<SupplyNow.args[1] + SupplyNow.args[2] + SupplyNow.args[3]>>

C4_Witness ==
    /\ Called
    /\ target = "add"
    /\ threshold = 3
    /\ SupplyNow.groups = <<1, 1, 1>>
    /\ SupplyNow.args = <<1, 2, 2>>
    /\ last.out.fn_args = <<1, 2, 2>>
    /\ last.out.ret = <<5>>

\* C5: a call leaves the accumulator it is made on as it was, whatever its
\* outcome, and the outcome is the one a fresh accumulator holding exactly
\* what the chain was given before would produce for the same arguments.
C5_CallLeavesReceiver ==
    [][(~Called /\ Called') =>
          /\ held' = held
          /\ held.obj = NewPartial(threshold, target, held.sup.args, held.sup.kwargs)
          /\ last'.out = PartialCall(
                NewPartial(threshold, target, last'.self.sup.args, last'.self.sup.kwargs),
                last'.more_args, last'.more_kwargs)]_vars

C5_Witness ==
    /\ last.out.kind = "result"
    /\ last.self = held
    /\ last.self.obj.args = <<1>>
    /\ last.more_args = <<2, 2>>
    /\ last.out.ret = <<5>>

\* ------------------------------------------------------------------------
\* Properties of the trampoline
\* ------------------------------------------------------------------------
\* C6: fn is invoked first with the caller's arguments and afterwards with
\* exactly the args and kwargs of the TailCall it last returned; no
\* invocation follows a Return; inner returns that Return's return_val, and
\* then fn has been invoked once more than it has returned TailCalls.
C6_DrivesBySignal ==
    /\ pc = "fn" =>
          \/ result = NoResult /\ ncalls = 1 /\ passed = call0
          \/ result.tag = "TailCall" /\ ncalls > 1
                /\ passed = ArgSet(result.args, result.kwargs)
    /\ result.tag = "Return" => pc \in {"l41", "done"}
    /\ pc = "done" =>
          /\ result.tag = "Return"
          /\ retval = result.return_val
          /\ Len(retval) = 1
          /\ ncalls < MaxCount => ncalls = ntail + 1

C6_Witness ==
    /\ pc = "done"
    /\ step = "table"
    /\ call0 = ArgSet(<<1>>, EmptyDict)
    /\ passed = ArgSet(<<>>, [n \in {"n"} |-> 1])
    /\ ntail = 2
    /\ ncalls = 3
    /\ retval = <<"v">>

\* C7: at the loop test only the signal's class decides: a Return ends the
\* run with its return_val, None and the empty string included, and a
\* TailCall leads to another invocation of fn, empty args and kwargs
\* included.
C7_TagDecides ==
    [][pc = "l41" =>
          /\ result.tag = "Return" => (pc' = "done" /\ retval' = result.return_val)
          /\ result.tag = "TailCall" =>
                (pc' = "fn" /\ passed' = ArgSet(result.args, result.kwargs))]_vars

C7_Witness ==
    /\ pc = "done"
    /\ step = "table"
    /\ call0 = ArgSet(<<1>>, EmptyDict)
    /\ table[call0] = TailCall(<<>>, EmptyDict)
    /\ retval = <<"None">>
    /\ ncalls = 2

\* C8: whatever the number of iterations, the live activations are inner
\* alone or inner with one activation of fn on top of it.
C8_ConstantStack ==
    /\ Len(stack) <= 2
    /\ pc \in {"l40", "l41"} => stack = <<"inner">>
    /\ pc = "fn" => stack = <<"inner", "fn">>
    /\ pc = "done" => stack = <<>>

C8_Witness ==
    /\ ncalls = MaxCount
    /\ ntail = MaxCount
    /\ stack = <<"inner", "fn">>

\* C9: inner returns exactly when fn at some point returns a Return; as
\* long as fn never does, inner goes on invoking fn.
C9_ReturnsIffDone ==
    /\ (<>(result.tag = "Return")) => <>(pc = "done")
    /\ (<>(pc = "done")) => <>(result.tag = "Return")
    /\ ([](result.tag # "Return")) => []<><<LoopIteration \/ FirstCall>>_vars

C9_Witness ==
    /\ step = "table"
    /\ \A a \in StepArgs : table[a].tag = "TailCall"
    /\ ncalls = MaxCount
    /\ pc = "l41"

\* C10: for n in 0..MaxN the wrapped factorial returns n! and the wrapped
\* fibonacci the n-th term of 1, 1, 2, 3, 5, ..., as the recursive
\* definitions and the lists of the examples give them.
RECURSIVE Fact(_)
Fact(n) == IF n = 0 THEN 1 ELSE n * Fact(n - 1)

RECURSIVE Fib(_)
Fib(n) == IF n <= 1 THEN 1 ELSE Fib(n - 1) + Fib(n - 2)

FactExpected == <<1, 1, 2, 6, 24, 120, 720, 5040, 40320, 362880>>

FibExpected == <<1, 1, 2, 3, 5, 8, 13, 21, 34, 55>>

C10_MatchesRecursion ==
    (pc = "done" /\ step \in {"factorial", "fibonacci"}) =>
       LET n == call0.args[1] IN
       /\ step = "factorial" =>
             /\ retval = <<Fact(n)>>
             /\ n < Len(FactExpected) => retval = <<FactExpected[n + 1]>>
       /\ step = "fibonacci" =>
             /\ retval = <<Fib(n)>>
             /\ n < Len(FibExpected) => retval = <<FibExpected[n + 1]>>

C10_Witness ==
    /\ pc = "done"
    /\ step = "fibonacci"
    /\ call0.args = <<9>>
    /\ retval = <<55>>
    /\ ncalls = 10

\* ------------------------------------------------------------------------
\* Failures of the target
\* ------------------------------------------------------------------------
\* the arguments of the call in `last` merged with those its receiver holds
MergedArgs == last.self.obj.args \o last.more_args

MergedKwargs == DictUnion(last.self.obj.kwargs, last.more_kwargs)

ThresholdMet ==
    /\ Called
    /\ ~DictClash(last.self.obj.kwargs, last.more_kwargs)
    /\ Len(MergedArgs) + Cardinality(DOMAIN MergedKwargs) >= threshold

\* the accumulated arguments do not fit the target's parameter list
TooManyPositional == Len(MergedArgs) > Len(Params(target))

UnknownKeyword == \E n \in DOMAIN MergedKwargs : n \notin ParamSet(target)

GivenTwice == (PositionalNames(target, MergedArgs) \cap DOMAIN MergedKwargs) # {}

MissingRequired ==
    \E n \in ParamSet(target) :
       /\ n \notin PositionalNames(target, MergedArgs)
       /\ n \notin DOMAIN MergedKwargs
       /\ n \notin DOMAIN Defaults(target)

AllRan == floor1.ran /\ floor2.ran /\ floor3.ran

\* q is a // b: the largest integer whose product with b does not pass a
IsFloor(q) ==
    /\ arg_b > 0 => (q * arg_b <= arg_a /\ arg_a - q * arg_b < arg_b)
    /\ arg_b < 0 => (q * arg_b >= arg_a /\ q * arg_b - arg_a < -arg_b)

\* C12: on the same operands the three variants raise nothing and return
\* the same thing: a // b when b is not 0, None when it is.
C12_VariantsAgree ==
    AllRan =>
       /\ floor1.exc = "" /\ floor2.exc = "" /\ floor3.exc = ""
       /\ floor1.ret = floor2.ret
       /\ floor2.ret = floor3.ret
       /\ arg_b = 0 => floor1.ret = <<>>
       /\ arg_b # 0 => (Len(floor1.ret) = 1 /\ IsFloor(floor1.ret[1]))

C12_Witness ==
    /\ AllRan
    /\ arg_a = -3
    /\ arg_b = 2
    /\ floor3.ret = <<-2>>

\* ------------------------------------------------------------------------
\* The two accumulators side by side
\* ------------------------------------------------------------------------
\* C13: for the same threshold, target and calls, the Partial and the
\* closure of curry_functional hold the same arguments, and each call has
\* the same outcome on both: a further callable with the same arguments, or
\* one invocation of target with the same arguments and its result, or the
\* same exception.
C13_SameOutcome ==
    /\ fheld.args = held.obj.args
    /\ fheld.kwargs = held.obj.kwargs
    /\ Called =>
          /\ flast.kind = last.out.kind
          /\ flast.exc = last.out.exc
          /\ flast.ret = last.out.ret
          /\ flast.called = last.out.called
          /\ flast.fn_args = last.out.fn_args
          /\ flast.fn_kwargs = last.out.fn_kwargs
          /\ flast.kind = "partial" =>
                /\ flast.obj.args = last.out.obj.args
                /\ flast.obj.kwargs = last.out.obj.kwargs

====
